---- MODULE Spec2Model ----
(***************************************************************************)
(* Scan-and-enrich pipeline of polymarket_active_users_analysis.           *)
(*                                                                         *)
(* PolymarketRateLimitedScanner (src/chunk2_fetch_and_parse_data.py):      *)
(*   make_request_with_backoff is modelled one HTTP attempt per step, and  *)
(*   the body of the scan loop is modelled one returned call per step.     *)
(* PolymarketDiagnostic (src/diagnositc/diagnostic_10000_trades.py):       *)
(*   scan_with_detailed_logging, one loop iteration per step.              *)
(* PolymarketCompleteAnalyzer (src/chunk4_final_analysis.py):              *)
(*   scan_for_active_users, one loop iteration per step.                   *)
(* PolymarketUserAnalyzer (src/chunk3_userpos.py):                         *)
(*   calculate_user_profit, one call per step; floats are numbers of       *)
(*   tenths or nan.                                                        *)
(*                                                                         *)
(* Delays are integers in microseconds; current_delay * 0.9 is the floor   *)
(* of the exact product.  Counters that only feed print statements         *)
(* (total_api_calls, successful_calls, batch_recent, batch_old) are not    *)
(* part of the state.                                                      *)
(***************************************************************************)
EXTENDS Integers, Sequences, FiniteSets, TLC

VARIABLES
    limit,                  \* records asked for per request (the local `limit`)
    old_trades_stop,        \* consecutive old trades that end the scan (the literal 2500)
    feed,                   \* the upstream trade feed, newest first
    upstream,               \* how often the upstream may throttle / corrupt a page
    n429,                   \* number of HTTP 429 responses sent so far
    nCorrupt,               \* number of pages sent with a non-object element
    nErrors,                \* number of other failed attempts (status, transport)
    nUndecodable,           \* number of HTTP 200 bodies that were not JSON
    pc,                     \* where the program is
    current_delay,          \* self.current_delay
    attempt,                \* loop index of make_request_with_backoff
    slept,                  \* time.sleep durations of the call in progress
    requests,               \* HTTP requests issued by the call in progress
    oks,                    \* HTTP 200 responses met by the call in progress
    throttles,              \* 429 responses without a hint met by the call in progress
    delay0,                 \* current_delay when the call in progress began
    response,               \* value returned by make_request_with_backoff
    offset,
    failed_calls,
    rate_limit_hits,
    consecutive_old_trades,
    total_trades_processed,
    recent_trades_found,
    active_users,
    user_trade_counts,
    user_names,
    fed,                    \* offsets whose decoded page entered the for loop
    stop,                   \* the condition that ended the scan loop ("" while it runs)
    pause,                  \* time.sleep at the end of the latest pass of the scan loop (0: none)
    max_trades_to_scan,     \* argument of scan_with_detailed_logging
    total_trades_fetched,
    recent_trades_count,
    old_trades_count,
    consecutive_old_batches,
    trades_bound,           \* whether the local name `trades` has been assigned
    trades_scanned,         \* local of scan_for_active_users
    positions,              \* argument of calculate_user_profit
    results,                \* value returned by calculate_user_profit
    trade_keys,             \* keys of self.user_trade_counts in insertion order
    profit_threshold,       \* argument of find_profitable_users, in tenths
    max_users_to_check,     \* argument of find_profitable_users
    users_to_check,         \* local of find_profitable_users
    profitable_users,       \* self.profitable_users
    enriched,               \* the calls of analyze_user_profit made by the loop
    printed,                \* what generate_detailed_report printed
    report,                 \* value returned by generate_detailed_report
    csv_rows                \* rows written by run_full_analysis

vars == <<limit, old_trades_stop, feed, upstream, n429, nCorrupt, nErrors, nUndecodable, pc, current_delay,
          attempt, slept, requests, oks, throttles, delay0, response, offset,
          failed_calls, rate_limit_hits,
          consecutive_old_trades, total_trades_processed, recent_trades_found,
          active_users, user_trade_counts, user_names, fed, pause, stop,
          max_trades_to_scan, total_trades_fetched, recent_trades_count,
          old_trades_count, consecutive_old_batches, trades_bound, trades_scanned,
          positions, results, trade_keys, profit_threshold, max_users_to_check,
          users_to_check, profitable_users, enriched, printed, report, csv_rows>>

\* the state of find_profitable_users and generate_detailed_report
enrichVars == <<trade_keys, profit_threshold, max_users_to_check, users_to_check,
                profitable_users, enriched, printed, report, csv_rows>>

profitVars == <<positions, results, enrichVars>>

diagVars == <<max_trades_to_scan, total_trades_fetched, recent_trades_count,
              old_trades_count, consecutive_old_batches, trades_bound,
              trades_scanned>>

----------------------------------------------------------------------------
(* Bounds of the model *)

\* records per page; scales `limit = 500`
PageSize == 2
\* consecutive old trades that stop the scan; scales 2500
OldTradesStop == 3
\* longest feed
MaxFeed == 3
\* 429 responses the upstream may send in a backoff run
MaxThrottle == 6
\* attempts the upstream may fail otherwise (status, transport) in a backoff run
MaxErrors == 1
\* pages the upstream may send with a null element in a backoff run
MaxCorrupt == 1
\* bodies that are not JSON the upstream may send in a backoff run
MaxUndecodable == 1
\* failed_calls is only ever compared with 5; larger values fold to this one
FailedCap == 7
\* longest position list tried
MaxPositions == 3
\* largest max_trades_to_scan tried
MaxScan == 6
\* positions the positions endpoint sends per request (500 in the code)
PositionLimit == 1
\* most positions a user holds
MaxHeld == 2
\* largest max_users_to_check tried
MaxCheck == 2

----------------------------------------------------------------------------
(* Program constants *)

Second == 1000 * 1000
base_delay == 500000
max_delay == 10000000
backoff_multiplier == 2
max_retries == 5
FailureBudget == 5
six_months_ago == 1000
OldBatchesStop == 3

None == "<None>"
Unlimited == 0 - 1
Min(a, b) == IF a <= b THEN a ELSE b
Max(a, b) == IF a >= b THEN a ELSE b

\* Python truthiness of an optional string
Truthy(s) == s # None /\ s # ""

\* dict.get(key, default)
Get(d, key, default) == IF key \in DOMAIN d THEN d[key] ELSE default

----------------------------------------------------------------------------
(* The upstream *)

TradeKinds ==
    { [timestamp |-> six_months_ago + 5, proxyWallet |-> "0xa",
       name |-> "alice", pseudonym |-> "al"],
      [timestamp |-> six_months_ago, proxyWallet |-> "0xa",
       name |-> "", pseudonym |-> "ally"],
      [timestamp |-> six_months_ago + 1, proxyWallet |-> "0xb"],
      [timestamp |-> six_months_ago - 1, proxyWallet |-> "0xb", name |-> "bob"],
      [timestamp |-> six_months_ago + 2, name |-> "ghost"] }

Wallets == {"0xa", "0xb"}

RECURSIVE SeqsUpTo(_, _)
SeqsUpTo(S, n) ==
    IF n = 0 THEN {<<>>}
    ELSE LET shorter == SeqsUpTo(S, n - 1)
         IN  shorter \cup {Append(s, x) : s \in shorter, x \in S}

Feeds == SeqsUpTo(TradeKinds, MaxFeed)

\* the slice  feed[off : off + limit]  the endpoint returns
PageAt(f, off) == SubSeq(f, off + 1, Min(off + limit, Len(f)))

\* a JSON null where a trade object is expected
Null == [null |-> TRUE]
IsDict(t) == "null" \notin DOMAIN t
CorruptAt(page, k) == [i \in 1..Len(page) |-> IF i = k THEN Null ELSE page[i]]

\* Retry-After header: absent, or a string given as its characters together
\* with the wait in seconds the server means by it (delay-seconds, or the
\* time left until an HTTP-date)
NoHeader == [present |-> FALSE, text |-> <<>>, seconds |-> 0]
Header(text, seconds) == [present |-> TRUE, text |-> text, seconds |-> seconds]
RetryAfterHeaders ==
    {NoHeader, Header(<<>>, 0), Header(<<"3">>, 3), Header(<<"s", "o", "o", "n">>, 7)}

Digits == {"0", "1", "2", "3", "4", "5", "6", "7", "8", "9"}
DigitVal(c) ==
    CASE c = "0" -> 0 [] c = "1" -> 1 [] c = "2" -> 2 [] c = "3" -> 3
      [] c = "4" -> 4 [] c = "5" -> 5 [] c = "6" -> 6 [] c = "7" -> 7
      [] c = "8" -> 8 [] c = "9" -> 9

\* int(retry_after): whether it raises ValueError, and its value when it does not
IntRaises(text) == text = <<>> \/ \E i \in 1..Len(text) : text[i] \notin Digits
RECURSIVE IntOf(_)
IntOf(text) ==
    IF text = <<>> THEN 0
    ELSE 10 * IntOf(SubSeq(text, 1, Len(text) - 1)) + DigitVal(text[Len(text)])

\* `if retry_after:` on response.headers.get('Retry-After')
HasHint(h) == h.present /\ h.text # <<>>

----------------------------------------------------------------------------
(* PolymarketRateLimitedScanner.make_request_with_backoff *)

\* self.current_delay * self.success_delay_reduction
SuccessReduced(d) == (d * 9) \div 10

\* variant: the reduction without its floor
DelayNoFloor(d) == SuccessReduced(d)

\* the delay after an HTTP 200
DelayAfter200(d) == Max(base_delay, SuccessReduced(d))

\* variant: the wait is the delay before the backoff
WaitOldDelay(d, h) == IF HasHint(h) THEN IntOf(h.text) * Second ELSE d

\* wait_time of the 429 branch (int() has not raised)
ThrottleWait(d, h) ==
    IF HasHint(h) THEN IntOf(h.text) * Second ELSE d * backoff_multiplier

\* variant: the delay backs off whether or not a hint came
DelayBacksOffAlways(d, h) == Min(max_delay, d * backoff_multiplier)

\* the delay after an HTTP 429 (int() has not raised)
DelayAfter429(d, h) ==
    IF HasHint(h) THEN d ELSE Min(max_delay, d * backoff_multiplier)

\* variant: a sleep after the last attempt too
HasRetryAlways(a) == a < max_retries

\* `if attempt < max_retries - 1`
HasRetry(a) == a < max_retries - 1

NoneResponse == [isNone |-> TRUE, status_code |-> 0, json_ok |-> FALSE, trades |-> <<>>]
OkResponse(json_ok, trades) ==
    [isNone |-> FALSE, status_code |-> 200, json_ok |-> json_ok, trades |-> trades]

\* the end of a failed attempt: sleep and `continue`, or `return None`
RetryAfter(wait) ==
    IF HasRetry(attempt)
    THEN /\ slept' = Append(slept, wait)
         /\ IF attempt + 1 < max_retries
            THEN attempt' = attempt + 1 /\ pc' = "request" /\ response' = response
            ELSE attempt' = attempt /\ pc' = "returned" /\ response' = NoneResponse
    ELSE /\ slept' = slept
         /\ attempt' = attempt
         /\ pc' = "returned"
         /\ response' = NoneResponse

scanData == <<offset, failed_calls, rate_limit_hits, consecutive_old_trades,
              total_trades_processed, recent_trades_found, active_users,
              user_trade_counts, user_names, fed, pause, stop>>

Return200(body) ==
    /\ current_delay' = DelayAfter200(current_delay)
    /\ requests' = requests + 1
    /\ oks' = oks + 1
    /\ response' = body
    /\ pc' = "returned"
    /\ UNCHANGED <<attempt, slept, n429, throttles, delay0>>

\* HTTP 200 whose body is the page at the requested offset
Http200Page ==
    /\ pc = "request"
    /\ Return200(OkResponse(TRUE, PageAt(feed, offset)))
    /\ UNCHANGED <<profitVars, feed, upstream, limit, old_trades_stop, nCorrupt, nErrors, nUndecodable, scanData, diagVars>>

\* HTTP 200 whose body is not JSON
Http200Undecodable ==
    /\ pc = "request"
    /\ upstream.undecodable = Unlimited \/ nUndecodable < upstream.undecodable
    /\ nUndecodable' = IF upstream.undecodable = Unlimited THEN nUndecodable
                       ELSE nUndecodable + 1
    /\ Return200(OkResponse(FALSE, <<>>))
    /\ UNCHANGED <<profitVars, feed, upstream, limit, old_trades_stop, nCorrupt, nErrors, scanData, diagVars>>

\* HTTP 200 whose page holds a null instead of its k-th trade
Http200Corrupt ==
    /\ pc = "request"
    /\ nCorrupt < upstream.corrupt
    /\ \E k \in 1..Len(PageAt(feed, offset)) :
          Return200(OkResponse(TRUE, CorruptAt(PageAt(feed, offset), k)))
    /\ nCorrupt' = nCorrupt + 1
    /\ UNCHANGED <<profitVars, feed, upstream, limit, old_trades_stop, nErrors, nUndecodable, scanData, diagVars>>

\* HTTP 429 with Retry-After header h
Http429With(h) ==
    /\ pc = "request"
    /\ n429 < upstream.throttle
    /\ n429' = n429 + 1
    /\ requests' = requests + 1
    /\ throttles' = IF HasHint(h) THEN throttles ELSE throttles + 1
    /\ IF HasHint(h) /\ IntRaises(h.text)
       THEN \* int(retry_after) raises: the except branch
            /\ current_delay' = current_delay
            /\ RetryAfter(current_delay)
       ELSE /\ current_delay' = DelayAfter429(current_delay, h)
            /\ RetryAfter(ThrottleWait(current_delay, h))
    /\ UNCHANGED <<profitVars, feed, upstream, limit, old_trades_stop, nCorrupt, nErrors, nUndecodable, oks, delay0,
                   scanData, diagVars>>

Http429 == \E h \in RetryAfterHeaders : Http429With(h)

\* any other status
HttpOther ==
    /\ pc = "request"
    /\ nErrors < upstream.errors
    /\ nErrors' = nErrors + 1
    /\ requests' = requests + 1
    /\ RetryAfter(current_delay)
    /\ UNCHANGED <<profitVars, feed, upstream, limit, old_trades_stop, nCorrupt, nUndecodable, n429, current_delay, oks, throttles, delay0,
                   scanData, diagVars>>

\* session.get raises (timeout, connection reset)
HttpError ==
    /\ pc = "request"
    /\ nErrors < upstream.errors
    /\ nErrors' = nErrors + 1
    /\ requests' = requests + 1
    /\ RetryAfter(current_delay)
    /\ UNCHANGED <<profitVars, feed, upstream, limit, old_trades_stop, nCorrupt, nUndecodable, n429, current_delay, oks, throttles, delay0,
                   scanData, diagVars>>

----------------------------------------------------------------------------
(* PolymarketRateLimitedScanner.scan_all_recent_trades_with_rate_limiting *)

\* variant: a trade at the cutoff or above a later cutoff only
LaterCutoff(ts) == ts >= six_months_ago + 350

\* `trade_timestamp >= self.six_months_ago`
InWindow(ts) == ts >= six_months_ago

\* variant: the pseudonym is preferred to the name
PseudonymFirst(trade) ==
    LET n == Get(trade, "name", "")
        p == Get(trade, "pseudonym", "")
    IN  IF Truthy(p) THEN p ELSE IF Truthy(n) THEN n ELSE "Anonymous"

\* trade.get('name', '') or trade.get('pseudonym', '') or 'Anonymous'
DisplayName(trade) ==
    LET n == Get(trade, "name", "")
        p == Get(trade, "pseudonym", "")
    IN  IF Truthy(n) THEN n ELSE IF Truthy(p) THEN p ELSE "Anonymous"

\* variant: a first sighting stores a count of 0
IncrKnown(d, w) == IF w \in DOMAIN d THEN [d EXCEPT ![w] = @ + 1] ELSE (w :> 0) @@ d

\* defaultdict(int): d[w] += 1
Incr(d, w) == IF w \in DOMAIN d THEN [d EXCEPT ![w] = @ + 1] ELSE (w :> 1) @@ d

\* one pass of the body of `for trade in trades`
ProcessTrade(acc, trade) ==
    LET counted == [acc EXCEPT !.total_trades_processed = @ + 1]
    IN  IF ~IsDict(trade)
        THEN [counted EXCEPT !.raised = TRUE]
        ELSE IF InWindow(Get(trade, "timestamp", 0))
        THEN LET w == Get(trade, "proxyWallet", None)
                 recent == [counted EXCEPT !.recent_trades_found = @ + 1,
                                           !.consecutive_old_trades = 0]
             IN  IF Truthy(w)
                 THEN [recent EXCEPT
                         !.active_users = @ \cup {w},
                         !.user_trade_counts = Incr(@, w),
                         !.user_names = IF w \in DOMAIN @ THEN @
                                        ELSE (w :> DisplayName(trade)) @@ @]
                 ELSE recent
        ELSE [counted EXCEPT !.consecutive_old_trades = @ + 1]

\* the for loop, left at the first trade that raises
RECURSIVE ProcessTrades(_, _)
ProcessTrades(acc, trades) ==
    IF trades = <<>> \/ acc.raised THEN acc
    ELSE ProcessTrades(ProcessTrade(acc, Head(trades)), Tail(trades))

Accumulated ==
    [active_users |-> active_users, user_trade_counts |-> user_trade_counts,
     user_names |-> user_names, consecutive_old_trades |-> consecutive_old_trades,
     total_trades_processed |-> total_trades_processed,
     recent_trades_found |-> recent_trades_found, raised |-> FALSE]

\* failed_calls += 1
FailedPlusOne(n) == Min(n + 1, FailedCap)

\* `if response.status_code == 429: rate_limit_hits += 1`
HitsAfter(r, hits) == IF r.status_code = 429 THEN hits + 1 ELSE hits

\* the next pass of `while True` starts a call
BeginCall ==
    /\ pc' = "request"
    /\ attempt' = 0
    /\ slept' = <<>>
    /\ requests' = 0
    /\ oks' = 0
    /\ throttles' = 0
    /\ delay0' = current_delay
    /\ response' = NoneResponse

\* variant: the loop goes round again instead of ending
RequestAgain == BeginCall

EndScan ==
    pc' = "done" /\ UNCHANGED <<attempt, slept, requests, oks, throttles, delay0, response>>

\* `if response is None`
ScanFailedPage ==
    /\ pc = "returned"
    /\ response.isNone
    /\ failed_calls' = FailedPlusOne(failed_calls)
    /\ IF failed_calls' >= FailureBudget
       THEN EndScan /\ offset' = offset /\ stop' = "failure_budget"
       ELSE BeginCall /\ offset' = offset + limit /\ stop' = stop
    /\ pause' = 0
    /\ UNCHANGED <<profitVars, feed, upstream, limit, old_trades_stop, n429, nCorrupt, nErrors, nUndecodable, current_delay, rate_limit_hits,
                   consecutive_old_trades, total_trades_processed,
                   recent_trades_found, active_users, user_trade_counts,
                   user_names, fed, diagVars>>

\* response.json() raises json.JSONDecodeError
ScanDecodeError ==
    /\ pc = "returned"
    /\ ~response.isNone /\ ~response.json_ok
    /\ rate_limit_hits' = HitsAfter(response, rate_limit_hits)
    /\ failed_calls' = FailedPlusOne(failed_calls)
    /\ BeginCall
    /\ pause' = 0
    /\ stop' = stop
    /\ UNCHANGED <<profitVars, feed, upstream, limit, old_trades_stop, n429, nCorrupt, nErrors, nUndecodable, current_delay, offset,
                   consecutive_old_trades, total_trades_processed,
                   recent_trades_found, active_users, user_trade_counts,
                   user_names, fed, diagVars>>

\* `if not trades: break`
ScanEmptyPage ==
    /\ pc = "returned"
    /\ ~response.isNone /\ response.json_ok /\ response.trades = <<>>
    /\ rate_limit_hits' = HitsAfter(response, rate_limit_hits)
    /\ EndScan
    /\ pause' = 0
    /\ stop' = "empty_page"
    /\ UNCHANGED <<profitVars, feed, upstream, limit, old_trades_stop, n429, nCorrupt, nErrors, nUndecodable, current_delay, offset, failed_calls,
                   consecutive_old_trades, total_trades_processed,
                   recent_trades_found, active_users, user_trade_counts,
                   user_names, fed, diagVars>>

\* a page of trades goes through the for loop
ScanProcessPage ==
    /\ pc = "returned"
    /\ ~response.isNone /\ response.json_ok /\ response.trades # <<>>
    /\ rate_limit_hits' = HitsAfter(response, rate_limit_hits)
    /\ fed' = fed \cup {offset}
    /\ LET acc == ProcessTrades(Accumulated, response.trades)
       IN  /\ active_users' = acc.active_users
           /\ user_trade_counts' = acc.user_trade_counts
           /\ user_names' = acc.user_names
           /\ consecutive_old_trades' = acc.consecutive_old_trades
           /\ total_trades_processed' = acc.total_trades_processed
           /\ recent_trades_found' = acc.recent_trades_found
           /\ IF acc.raised
              THEN \* except Exception: failed_calls += 1; continue
                   /\ failed_calls' = FailedPlusOne(failed_calls)
                   /\ offset' = offset
                   /\ pause' = 0
                   /\ stop' = stop
                   /\ BeginCall
              ELSE /\ failed_calls' = failed_calls
                   /\ IF acc.consecutive_old_trades >= old_trades_stop
                      THEN EndScan /\ offset' = offset /\ pause' = 0
                           /\ stop' = "window_exhausted"
                      ELSE \* offset += limit; time.sleep(self.current_delay)
                           BeginCall /\ offset' = offset + limit
                           /\ pause' = current_delay /\ stop' = stop
    /\ UNCHANGED <<profitVars, feed, upstream, limit, old_trades_stop, n429, nCorrupt, nErrors, nUndecodable, current_delay, diagVars>>

Upstream(throttle, errors, corrupt, undecodable) ==
    [throttle |-> throttle, errors |-> errors, corrupt |-> corrupt,
     undecodable |-> undecodable]

\* the page size and the old-trades threshold, scaled down
ScaledConfig == limit = PageSize /\ old_trades_stop = OldTradesStop

\* calculate_user_profit has not been called
NoResults == [total_positions |-> 0 - 1]
\* find_profitable_users and generate_detailed_report have not been called
NoArg == [isNone |-> TRUE, v |-> 0]
NoReport == [total_active_users |-> 0 - 1]
NothingPrinted == [ranking |-> <<>>, activity |-> <<>>, divisors |-> {}]
EnrichIdle ==
    /\ profit_threshold = 0
    /\ max_users_to_check = NoArg
    /\ users_to_check = <<>>
    /\ profitable_users = <<>>
    /\ enriched = <<>>
    /\ printed = NothingPrinted
    /\ report = NoReport
    /\ csv_rows = <<>>

ProfitIdle == positions = <<>> /\ results = NoResults /\ trade_keys = <<>> /\ EnrichIdle

DiagIdle ==
    /\ max_trades_to_scan = 0
    /\ total_trades_fetched = 0
    /\ recent_trades_count = 0
    /\ old_trades_count = 0
    /\ consecutive_old_batches = 0
    /\ trades_bound = FALSE
    /\ trades_scanned = 0

\* the scanner's own state before its first request
ScannerCounters ==
    /\ n429 = 0
    /\ nCorrupt = 0
    /\ nErrors = 0
    /\ nUndecodable = 0
    /\ current_delay = base_delay
    /\ attempt = 0
    /\ slept = <<>>
    /\ requests = 0
    /\ oks = 0
    /\ throttles = 0
    /\ delay0 = base_delay
    /\ response = NoneResponse
    /\ failed_calls = 0
    /\ rate_limit_hits = 0
    /\ consecutive_old_trades = 0
    /\ total_trades_processed = 0
    /\ recent_trades_found = 0
    /\ fed = {}
    /\ pause = 0

ScannerFields ==
    /\ ScannerCounters
    /\ user_trade_counts = <<>>
    /\ user_names = <<>>

\* a new PolymarketRateLimitedScanner starts its scan
ScannerStart ==
    /\ ProfitIdle
    /\ pc = "request"
    /\ stop = ""
    /\ offset = 0
    /\ active_users = {}
    /\ ScannerFields
    /\ DiagIdle

\* a scan run: any feed; the upstream may throttle once, fail the other attempts
\* of one call, send one page with a null element and one body that is not JSON
ScanUpstream == Upstream(1, max_retries - 1, 1, 1)

Init ==
    /\ ScaledConfig
    /\ feed \in Feeds
    /\ upstream = ScanUpstream
    /\ ScannerStart

Next ==
    \/ Http200Page
    \/ Http200Undecodable
    \/ Http200Corrupt
    \/ Http429
    \/ HttpOther
    \/ HttpError
    \/ ScanFailedPage
    \/ ScanDecodeError
    \/ ScanEmptyPage
    \/ ScanProcessPage

Spec == Init /\ [][Next]_vars

\* a backoff run: a feed of one trade, and an upstream that throttles often
BackoffFeed ==
    <<[timestamp |-> six_months_ago + 5, proxyWallet |-> "0xa",
       name |-> "alice", pseudonym |-> "al"]>>

InitBackoff ==
    /\ ScaledConfig
    /\ feed = BackoffFeed
    /\ upstream = Upstream(MaxThrottle, MaxErrors, MaxCorrupt, MaxUndecodable)
    /\ ScannerStart

SpecBackoff == InitBackoff /\ [][Next]_vars

\* a run that can go on for ever: the upstream may send bodies that are not
\* JSON without end.  The program is sequential and every request is
\* answered or times out, so some step is always taken.
InitFair ==
    /\ ScaledConfig
    /\ feed = BackoffFeed
    /\ upstream = Upstream(1, max_retries - 1, 1, Unlimited)
    /\ ScannerStart

FairSpec == InitFair /\ [][Next]_vars /\ WF_vars(Next)

\* the window scenario: pages of 3 records, a threshold of 2 consecutive old
\* trades, and a newest-first feed 1500, 1400, 1300 | 900, 800, ... whose
\* tail of old records reaches into a third page or not
WindowTrade(ts, wallet) == [timestamp |-> ts, proxyWallet |-> wallet]

WindowHead ==
    <<WindowTrade(six_months_ago + 500, "0xa"), WindowTrade(six_months_ago + 400, "0xb"),
      WindowTrade(six_months_ago + 300, "0xa"), WindowTrade(six_months_ago - 100, "0xb"),
      WindowTrade(six_months_ago - 200, "0xa")>>

WindowFeeds ==
    {WindowHead \o tail :
        tail \in SeqsUpTo({WindowTrade(six_months_ago - 300, "0xb")}, MaxFeed)}

InitWindow ==
    /\ limit = 3
    /\ old_trades_stop = 2
    /\ feed \in WindowFeeds
    /\ upstream = ScanUpstream
    /\ ScannerStart

SpecWindow == InitWindow /\ [][Next]_vars

----------------------------------------------------------------------------
(* PolymarketDiagnostic.scan_with_detailed_logging *)

scannerVars == <<n429, nCorrupt, nErrors, nUndecodable, current_delay, attempt, slept,
                 requests, oks, throttles, delay0, response, failed_calls,
                 rate_limit_hits, consecutive_old_trades, total_trades_processed,
                 recent_trades_found, user_trade_counts, user_names, fed, pause>>

\* one pass of the body of `for trade in trades`
DiagTrade(acc, trade) ==
    IF ~IsDict(trade)
    THEN [acc EXCEPT !.raised = TRUE]
    ELSE IF InWindow(Get(trade, "timestamp", 0))
    THEN LET w == Get(trade, "proxyWallet", None)
             recent == [acc EXCEPT !.batch_recent = @ + 1,
                                   !.recent_trades_count = @ + 1]
         IN  IF Truthy(w) THEN [recent EXCEPT !.active_users = @ \cup {w}]
             ELSE recent
    ELSE [acc EXCEPT !.old_trades_count = @ + 1]

RECURSIVE DiagTrades(_, _)
DiagTrades(acc, trades) ==
    IF trades = <<>> \/ acc.raised THEN acc
    ELSE DiagTrades(DiagTrade(acc, Head(trades)), Tail(trades))

\* the chain under "WHY SCANNING STOPPED" reads the local name `trades`
\* only when its first two tests fail; the name is unbound until line 58 ran
SummaryRaises(total, batches, bound) ==
    /\ ~(total >= max_trades_to_scan)
    /\ ~(batches >= OldBatchesStop)
    /\ ~bound

\* the code after the loop: the summary, then `return`
DiagFinish(total, batches, bound) ==
    pc' = IF SummaryRaises(total, batches, bound) THEN "raised" ELSE "returned"

DiagLeave(condition) ==
    /\ stop' = condition
    /\ DiagFinish(total_trades_fetched, consecutive_old_batches, trades_bound)
    /\ UNCHANGED <<profitVars, feed, upstream, limit, old_trades_stop, trades_scanned, offset, active_users, diagVars, scannerVars>>

\* `while self.total_trades_fetched < max_trades_to_scan` is false
DiagLoopExit ==
    /\ pc = "loop"
    /\ ~(total_trades_fetched < max_trades_to_scan)
    /\ DiagLeave("max_records")

\* `if response.status_code != 200: break`
DiagNon200 ==
    /\ pc = "loop"
    /\ total_trades_fetched < max_trades_to_scan
    /\ DiagLeave("request_failed")

\* session.get raises: `except Exception: break`
DiagGetRaises ==
    /\ pc = "loop"
    /\ total_trades_fetched < max_trades_to_scan
    /\ DiagLeave("request_failed")

\* response.json() raises: `except Exception: break`
DiagUndecodable ==
    /\ pc = "loop"
    /\ total_trades_fetched < max_trades_to_scan
    /\ DiagLeave("request_failed")

\* `if not trades: break`
DiagEmptyPage ==
    /\ pc = "loop"
    /\ total_trades_fetched < max_trades_to_scan
    /\ PageAt(feed, offset) = <<>>
    /\ trades_bound' = TRUE
    /\ stop' = "empty_page"
    /\ DiagFinish(total_trades_fetched, consecutive_old_batches, TRUE)
    /\ UNCHANGED <<profitVars, feed, upstream, limit, old_trades_stop, trades_scanned, offset, active_users, max_trades_to_scan,
                   total_trades_fetched, recent_trades_count, old_trades_count,
                   consecutive_old_batches, scannerVars>>

\* a batch of trades is analysed
DiagBatch(trades) ==
    LET total == total_trades_fetched + Len(trades)
        acc == DiagTrades([recent_trades_count |-> recent_trades_count,
                           old_trades_count |-> old_trades_count,
                           active_users |-> active_users,
                           batch_recent |-> 0, raised |-> FALSE], trades)
        batches == IF acc.raised THEN consecutive_old_batches
                   ELSE IF acc.batch_recent = 0 THEN consecutive_old_batches + 1
                   ELSE 0
    IN  /\ trades_bound' = TRUE
        /\ total_trades_fetched' = total
        /\ recent_trades_count' = acc.recent_trades_count
        /\ old_trades_count' = acc.old_trades_count
        /\ active_users' = acc.active_users
        /\ consecutive_old_batches' = batches
        /\ IF acc.raised \/ (acc.batch_recent = 0 /\ batches >= OldBatchesStop)
           THEN /\ DiagFinish(total, batches, TRUE)
                /\ offset' = offset
                /\ stop' = IF acc.raised THEN "request_failed" ELSE "window_exhausted"
           ELSE pc' = "loop" /\ offset' = offset + limit /\ stop' = stop
        /\ UNCHANGED <<profitVars, feed, upstream, limit, old_trades_stop, trades_scanned, max_trades_to_scan, scannerVars>>

DiagPage ==
    /\ pc = "loop"
    /\ total_trades_fetched < max_trades_to_scan
    /\ PageAt(feed, offset) # <<>>
    /\ DiagBatch(PageAt(feed, offset))

\* the page holds a null instead of its k-th trade
DiagCorruptPage ==
    /\ pc = "loop"
    /\ total_trades_fetched < max_trades_to_scan
    /\ \E k \in 1..Len(PageAt(feed, offset)) :
          DiagBatch(CorruptAt(PageAt(feed, offset), k))

DiagKinds ==
    { [timestamp |-> six_months_ago + 5, proxyWallet |-> "0xa", name |-> "alice"],
      [timestamp |-> six_months_ago - 1, proxyWallet |-> "0xb", name |-> "bob"] }

\* the shortest feed length that fills OldBatchesStop pages
MaxDiagFeed == (OldBatchesStop - 1) * PageSize + 1

InitDiag ==
    /\ ProfitIdle
    /\ ScaledConfig
    /\ feed \in SeqsUpTo(DiagKinds, MaxDiagFeed)
    /\ upstream = ScanUpstream
    /\ max_trades_to_scan \in 0..MaxScan
    /\ pc = "loop"
    /\ stop = ""
    /\ offset = 0
    /\ active_users = {}
    /\ total_trades_fetched = 0
    /\ recent_trades_count = 0
    /\ old_trades_count = 0
    /\ consecutive_old_batches = 0
    /\ trades_bound = FALSE
    /\ trades_scanned = 0
    /\ ScannerFields

NextDiag ==
    \/ DiagLoopExit
    \/ DiagNon200
    \/ DiagGetRaises
    \/ DiagUndecodable
    \/ DiagEmptyPage
    \/ DiagPage
    \/ DiagCorruptPage

SpecDiag == InitDiag /\ [][NextDiag]_vars

----------------------------------------------------------------------------
(* PolymarketCompleteAnalyzer.scan_for_active_users *)

\* what scan_for_active_users leaves alone
activeFrame == <<profitVars, limit, old_trades_stop, feed, upstream, max_trades_to_scan,
                 n429, nCorrupt, nErrors, nUndecodable, current_delay, attempt,
                 slept, requests, oks, throttles, delay0, response, failed_calls,
                 rate_limit_hits, consecutive_old_trades, total_trades_processed,
                 recent_trades_found, fed, pause, total_trades_fetched,
                 recent_trades_count, old_trades_count, consecutive_old_batches,
                 trades_bound>>

\* variant: the loop goes on while the cap is merely reached
MayScanAtCap(scanned) == scanned <= max_trades_to_scan

\* `while trades_scanned < max_trades_to_scan`
MayScan(scanned) == scanned < max_trades_to_scan

\* variant: a trade older than the cutoff is passed over and the loop goes on
ActiveTradeSkipsOld(acc, trade) ==
    IF ~IsDict(trade)
    THEN [acc EXCEPT !.raised = TRUE]
    ELSE IF Get(trade, "timestamp", 0) < six_months_ago
    THEN acc
    ELSE LET w == Get(trade, "proxyWallet", None)
             seen == IF Truthy(w)
                     THEN [acc EXCEPT
                             !.active_users = @ \cup {w},
                             !.user_trade_counts = Incr(@, w),
                             !.user_names = IF w \in DOMAIN @ THEN @
                                            ELSE (w :> DisplayName(trade)) @@ @]
                     ELSE acc
         IN  [seen EXCEPT !.trades_scanned = @ + 1]

\* one pass of the body of `for trade in trades`
ActiveTrade(acc, trade) ==
    IF ~IsDict(trade)
    THEN [acc EXCEPT !.raised = TRUE]
    ELSE IF Get(trade, "timestamp", 0) < six_months_ago
    THEN [acc EXCEPT !.old = TRUE]
    ELSE LET w == Get(trade, "proxyWallet", None)
             user_name == Get(trade, "name", "")
             pseudonym == Get(trade, "pseudonym", "")
             display_name == IF Truthy(user_name) THEN user_name
                             ELSE IF Truthy(pseudonym) THEN pseudonym
                             ELSE "Anonymous"
             seen == IF Truthy(w)
                     THEN [acc EXCEPT
                             !.active_users = @ \cup {w},
                             !.user_trade_counts = Incr(@, w),
                             !.user_names = IF w \in DOMAIN @ THEN @
                                            ELSE (w :> display_name) @@ @]
                     ELSE acc
         IN  [seen EXCEPT !.trades_scanned = @ + 1]

\* the for loop, left at the first old trade (return) or error (except)
RECURSIVE ActiveTrades(_, _)
ActiveTrades(acc, trades) ==
    IF trades = <<>> \/ acc.raised \/ acc.old THEN acc
    ELSE ActiveTrades(ActiveTrade(acc, Head(trades)), Tail(trades))

\* the scan is over: `return len(self.active_users)`
ActiveReturn(condition) ==
    /\ pc' = "returned"
    /\ stop' = condition
    /\ UNCHANGED <<offset, active_users, user_trade_counts, user_names,
                   trades_scanned, activeFrame>>

\* the while condition is false
ActiveLoopExit ==
    /\ pc = "scan"
    /\ ~MayScan(trades_scanned)
    /\ ActiveReturn("max_records")

\* `if response.status_code != 200: break`
ActiveNon200 ==
    /\ pc = "scan"
    /\ MayScan(trades_scanned)
    /\ ActiveReturn("request_failed")

\* session.get raises: `except Exception: break`
ActiveGetRaises ==
    /\ pc = "scan"
    /\ MayScan(trades_scanned)
    /\ ActiveReturn("request_failed")

\* response.json() raises: `except Exception: break`
ActiveUndecodable ==
    /\ pc = "scan"
    /\ MayScan(trades_scanned)
    /\ ActiveReturn("request_failed")

\* `if not trades: break`
ActiveEmptyPage ==
    /\ pc = "scan"
    /\ MayScan(trades_scanned)
    /\ PageAt(feed, offset) = <<>>
    /\ ActiveReturn("empty_page")

\* a batch of trades is processed
ActiveBatch(trades) ==
    LET acc == ActiveTrades([active_users |-> active_users,
                             user_trade_counts |-> user_trade_counts,
                             user_names |-> user_names,
                             trades_scanned |-> trades_scanned,
                             raised |-> FALSE, old |-> FALSE], trades)
    IN  /\ active_users' = acc.active_users
        /\ user_trade_counts' = acc.user_trade_counts
        /\ user_names' = acc.user_names
        /\ trades_scanned' = acc.trades_scanned
        /\ IF acc.raised
           THEN pc' = "returned" /\ stop' = "request_failed" /\ offset' = offset
           ELSE IF acc.old
           THEN pc' = "returned" /\ stop' = "window_exhausted" /\ offset' = offset
           ELSE pc' = "scan" /\ stop' = stop /\ offset' = offset + limit
        /\ UNCHANGED activeFrame

ActivePage ==
    /\ pc = "scan"
    /\ MayScan(trades_scanned)
    /\ PageAt(feed, offset) # <<>>
    /\ ActiveBatch(PageAt(feed, offset))

\* the page holds a null instead of its k-th trade
ActiveCorruptPage ==
    /\ pc = "scan"
    /\ MayScan(trades_scanned)
    /\ \E k \in 1..Len(PageAt(feed, offset)) :
          ActiveBatch(CorruptAt(PageAt(feed, offset), k))

\* the smallest and largest max_trades_to_scan tried
Caps == (0 - 1)..MaxScan

InitActive ==
    /\ ProfitIdle
    /\ ScaledConfig
    /\ feed \in Feeds
    /\ upstream = ScanUpstream
    /\ max_trades_to_scan \in Caps
    /\ pc = "scan"
    /\ stop = ""
    /\ offset = 0
    /\ active_users = {}
    /\ total_trades_fetched = 0
    /\ recent_trades_count = 0
    /\ old_trades_count = 0
    /\ consecutive_old_batches = 0
    /\ trades_bound = FALSE
    /\ trades_scanned = 0
    /\ ScannerFields

NextActive ==
    \/ ActiveLoopExit
    \/ ActiveNon200
    \/ ActiveGetRaises
    \/ ActiveUndecodable
    \/ ActiveEmptyPage
    \/ ActivePage
    \/ ActiveCorruptPage

SpecActive == InitActive /\ [][NextActive]_vars

\* either capped scan: scan_with_detailed_logging or scan_for_active_users
InitCapped == InitDiag \/ InitActive
NextCapped == NextDiag \/ NextActive
SpecCapped == InitCapped /\ [][NextCapped]_vars

----------------------------------------------------------------------------
(* PolymarketUserAnalyzer.calculate_user_profit *)

\* a Python float: a number of tenths, or nan
F(v) == [nan |-> FALSE, v |-> v]
NaN == [nan |-> TRUE, v |-> 0]
FAdd(a, b) == IF a.nan \/ b.nan THEN NaN ELSE F(a.v + b.v)
FGt(a, b) == ~a.nan /\ ~b.nan /\ a.v > b.v
FLt(a, b) == ~a.nan /\ ~b.nan /\ a.v < b.v
\* max(a, b) and min(a, b), called with numbers only
FMax(a, b) == IF FGt(b, a) THEN b ELSE a
FMin(a, b) == IF FLt(b, a) THEN b ELSE a

\* JSON values of a position field
JNull == [kind |-> "null"]
JNum(v) == [kind |-> "number", v |-> v]
JStr(text) == [kind |-> "string", text |-> text]

\* `if cash_pnl_raw`: None, 0 and "" are false
Falsy(raw) ==
    \/ raw.kind = "null"
    \/ raw.kind = "number" /\ raw.v = 0
    \/ raw.kind = "string" /\ raw.text = <<>>

\* the decimal strings float() reads here: [-]digits[.digit]
Unsigned(text) == IF text # <<>> /\ Head(text) = "-" THEN Tail(text) ELSE text
PointAt(text) == {i \in 1..Len(text) : text[i] = "."}
IsNanText(text) == text = <<"n", "a", "n">>
DecimalRaises(text) ==
    LET body == Unsigned(text)
    IN  IF PointAt(body) = {} THEN IntRaises(body)
        ELSE \/ PointAt(body) # {Len(body) - 1}
             \/ IntRaises(SubSeq(body, 1, Len(body) - 2))
             \/ body[Len(body)] \notin Digits
\* variant: the digit after the point is dropped
DecimalWhole(text) ==
    LET body == Unsigned(text)
        whole == IF PointAt(body) = {} THEN IntOf(body)
                 ELSE IntOf(SubSeq(body, 1, Len(body) - 2))
    IN  IF Head(text) = "-" THEN 0 - 10 * whole ELSE 10 * whole

DecimalOf(text) ==
    LET body == Unsigned(text)
        tenths == IF PointAt(body) = {} THEN 10 * IntOf(body)
                  ELSE 10 * IntOf(SubSeq(body, 1, Len(body) - 2))
                       + DigitVal(body[Len(body)])
    IN  IF Head(text) = "-" THEN 0 - tenths ELSE tenths

\* float(raw): whether it raises ValueError or TypeError, and its value
FloatRaises(raw) ==
    \/ raw.kind = "null"
    \/ raw.kind = "string" /\ ~IsNanText(raw.text) /\ DecimalRaises(raw.text)
FloatOf(raw) ==
    IF raw.kind = "number" THEN F(raw.v)
    ELSE IF IsNanText(raw.text) THEN NaN
    ELSE F(DecimalOf(raw.text))

\* `float(x) if x else 0`
ConvertRaises(raw) == ~Falsy(raw) /\ FloatRaises(raw)
Converted(raw) == IF Falsy(raw) THEN F(0) ELSE FloatOf(raw)

\* the four raw fields of a position, absent ones read as 0
RawFields(position) ==
    [cash_pnl |-> Get(position, "cashPnl", JNum(0)),
     percent_pnl |-> Get(position, "percentPnl", JNum(0)),
     initial_value |-> Get(position, "initialValue", JNum(0)),
     current_value |-> Get(position, "currentValue", JNum(0))]

\* the try block: the four conversions, or four zeros when one of them raises
Parsed(position) ==
    LET raw == RawFields(position)
    IN  IF \E f \in DOMAIN raw : ConvertRaises(raw[f])
        THEN [f \in DOMAIN raw |-> F(0)]
        ELSE [f \in DOMAIN raw |-> Converted(raw[f])]

\* one pass of the body of `for i, position in enumerate(positions)`
FoldPosition(acc, position) ==
    LET p == Parsed(position)
        summed == [acc EXCEPT
                     !.total_cash_pnl = FAdd(@, p.cash_pnl),
                     !.total_percent_pnl = FAdd(@, p.percent_pnl),
                     !.total_initial_value = FAdd(@, p.initial_value),
                     !.total_current_value = FAdd(@, p.current_value)]
    IN  IF FGt(p.cash_pnl, F(0))
        THEN [summed EXCEPT !.profitable_positions = @ + 1,
                            !.biggest_win = FMax(@, p.cash_pnl)]
        ELSE IF FLt(p.cash_pnl, F(0))
        THEN [summed EXCEPT !.losing_positions = @ + 1,
                            !.biggest_loss = FMin(@, p.cash_pnl)]
        ELSE summed

RECURSIVE FoldPositions(_, _)
FoldPositions(acc, ps) ==
    IF ps = <<>> THEN acc
    ELSE FoldPositions(FoldPosition(acc, Head(ps)), Tail(ps))

\* variant: the biggest win starts at one tenth
SeededResults ==
    [total_cash_pnl |-> F(0), total_percent_pnl |-> F(0),
     profitable_positions |-> 0, losing_positions |-> 0, total_positions |-> 0,
     biggest_win |-> F(1), biggest_loss |-> F(0),
     total_initial_value |-> F(0), total_current_value |-> F(0)]

\* the summary of no positions
ZeroResults ==
    [total_cash_pnl |-> F(0), total_percent_pnl |-> F(0),
     profitable_positions |-> 0, losing_positions |-> 0, total_positions |-> 0,
     biggest_win |-> F(0), biggest_loss |-> F(0),
     total_initial_value |-> F(0), total_current_value |-> F(0)]

calculate_user_profit(ps) ==
    IF ps = <<>> THEN ZeroResults
    ELSE [FoldPositions(ZeroResults, ps) EXCEPT !.total_positions = Len(ps)]

\* positions as the positions endpoint may send them
CashValues ==
    {JNum(2505), JNum(0 - 1000), JNum(0), JNull,
     JStr(<<"2", "5", "0", ".", "5">>), JStr(<<"-", "1", "0", "0">>), JStr(<<"0">>),
     JStr(<<>>), JStr(<<"a", "b", "c">>), JStr(<<"n", "a", "n">>)}

PositionKinds ==
    {[cashPnl |-> c] : c \in CashValues}
    \cup {[title |-> "market"]}
    \cup {[cashPnl |-> JStr(<<"2", "5", "0", ".", "5">>), percentPnl |-> q,
           initialValue |-> JNum(1000), currentValue |-> JNum(3505)] :
             q \in {JNum(25), JStr(<<"a", "b", "c">>)}}

PositionLists == SeqsUpTo(PositionKinds, MaxPositions)

ProfitCall ==
    /\ pc = "call"
    /\ results' = calculate_user_profit(positions)
    /\ pc' = "result"
    /\ UNCHANGED <<positions, enrichVars, limit, old_trades_stop, feed, upstream, stop,
                   offset, active_users, diagVars, scannerVars>>

InitProfit ==
    /\ positions \in PositionLists
    /\ results = NoResults
    /\ trade_keys = <<>>
    /\ EnrichIdle
    /\ pc = "call"
    /\ stop = ""
    /\ offset = 0
    /\ active_users = {}
    /\ ScaledConfig
    /\ feed = <<>>
    /\ upstream = ScanUpstream
    /\ DiagIdle
    /\ ScannerFields

NextProfit == ProfitCall

SpecProfit == InitProfit /\ [][NextProfit]_vars

----------------------------------------------------------------------------
(* PolymarketCompleteAnalyzer: analyze_user_profit, find_profitable_users,
   generate_detailed_report, and the CSV export of run_full_analysis *)

\* rows of the printed ranking: sorted_profitable[:10]
TopShown == 10

\* what the endpoint sends for a user who holds `held`: `limit` positions at most
Served(held) == SubSeq(held, 1, Min(Len(held), PositionLimit))

\* the one positions request of analyze_user_profit: HTTP 200 with a list,
\* another status, or an exception of session.get or response.json()
Reply200(held) == [kind |-> "200", positions |-> Served(held)]
ReplyOther == [kind |-> "status", positions |-> <<>>]
ReplyRaises == [kind |-> "raises", positions |-> <<>>]

\* `isinstance(cash_pnl, (str, int, float))`
IsScalar(raw) == raw.kind \in {"string", "number"}

\* one pass of `for position in positions`: a cashPnl that is no string or
\* number, or that float() rejects, adds nothing
AddCashPnl(total_profit, position) ==
    LET cash_pnl == Get(position, "cashPnl", JNum(0))
    IN  IF IsScalar(cash_pnl) /\ ~ConvertRaises(cash_pnl)
        THEN FAdd(total_profit, Converted(cash_pnl))
        ELSE total_profit

RECURSIVE TotalProfit(_, _)
TotalProfit(total_profit, ps) ==
    IF ps = <<>> THEN total_profit
    ELSE TotalProfit(AddCashPnl(total_profit, Head(ps)), Tail(ps))

\* the value returned: the sum on HTTP 200, and 0 on another status, on an
\* exception of the request and on an element that has no .get
analyze_user_profit(reply) ==
    IF reply.kind # "200" THEN F(0)
    ELSE IF \E i \in 1..Len(reply.positions) : ~IsDict(reply.positions[i]) THEN F(0)
    ELSE TotalProfit(F(0), reply.positions)

Reverse(seq) == [i \in 1..Len(seq) |-> seq[Len(seq) + 1 - i]]

\* sorted(seq, key=..., reverse=True): descending, equal keys in their old
\* order; greater[j][i] tells whether the key of seq[j] exceeds that of seq[i]
StableDescending(seq, greater) ==
    LET n == Len(seq)
        ahead(i) == {j \in 1..n : \/ greater[j][i]
                                  \/ ~greater[i][j] /\ j < i}
    IN  [k \in 1..n |-> seq[CHOOSE i \in 1..n : Cardinality(ahead(i)) = k - 1]]

\* key=lambda x: x[1] and key=lambda x: x['profit']
MoreTrades(items) ==
    [j \in 1..Len(items) |-> [i \in 1..Len(items) |-> items[j][2] > items[i][2]]]
MoreProfit(rows) ==
    [j \in 1..Len(rows) |-> [i \in 1..Len(rows) |-> FGt(rows[j].profit, rows[i].profit)]]

\* self.user_trade_counts.items()
Items == [i \in 1..Len(trade_keys) |->
            <<trade_keys[i], user_trade_counts[trade_keys[i]]>>]

\* sorted(self.user_trade_counts.items(), key=lambda x: x[1], reverse=True)
ByTradeCount(items) == StableDescending(items, MoreTrades(items))

\* variant: rows of equal profit come out in reverse order
ByProfitTiesReversed(rows) == StableDescending(Reverse(rows), MoreProfit(Reverse(rows)))

\* sorted(rows, key=lambda x: x['profit'], reverse=True)
ByProfit(rows) == StableDescending(rows, MoreProfit(rows))

\* `if max_users_to_check:` is false for None and for 0
Limited(arg) == ~arg.isNone /\ arg.v # 0
IntArg(n) == [isNone |-> FALSE, v |-> n]

\* users_to_check: sorted_users, or sorted_users[:max_users_to_check]
UsersToCheck(sorted_users, arg) ==
    IF Limited(arg) THEN SubSeq(sorted_users, 1, Min(arg.v, Len(sorted_users)))
    ELSE sorted_users

\* variant: a profit equal to the threshold passes
PassesAtThreshold(profit) == ~profit.nan /\ profit.v >= profit_threshold

\* `if profit > profit_threshold`
Passes(profit) == FGt(profit, F(profit_threshold))

\* the dict appended to self.profitable_users
UserData(user, profit) ==
    [address |-> user[1], profit |-> profit, trade_count |-> user[2],
     display_name |-> Get(user_names, user[1], "Anonymous")]

\* variant: a failed request ends the loop
AbortOnFailure(reply, checked) ==
    IF reply.kind # "200" \/ checked = Len(users_to_check) THEN "found" ELSE "enrich"

\* the for loop goes on to the next user whatever the request met
AfterCheck(reply, checked) ==
    IF checked = Len(users_to_check) THEN "found" ELSE "enrich"

\* what find_profitable_users and the report leave alone
enrichFrame == <<positions, results, limit, old_trades_stop, feed, upstream, stop,
                 offset, active_users, diagVars, scannerVars, trade_keys,
                 profit_threshold, max_users_to_check>>

\* find_profitable_users up to its for loop
FindProfitableUsers ==
    /\ pc = "find"
    /\ users_to_check' = UsersToCheck(ByTradeCount(Items), max_users_to_check)
    /\ profitable_users' = <<>>
    /\ enriched' = <<>>
    /\ pc' = IF users_to_check' = <<>> THEN "found" ELSE "enrich"
    /\ UNCHANGED <<enrichFrame, printed, report, csv_rows>>

\* one pass of `for i, (user_address, trade_count) in enumerate(users_to_check)`
CheckUser(reply) ==
    LET user == users_to_check[Len(enriched) + 1]
        profit == analyze_user_profit(reply)
    IN  /\ pc = "enrich"
        /\ enriched' = Append(enriched, [address |-> user[1],
                                         failed |-> reply.kind # "200",
                                         requests |-> 1,
                                         profit |-> profit])
        /\ profitable_users' = IF Passes(profit)
                               THEN Append(profitable_users, UserData(user, profit))
                               ELSE profitable_users
        /\ pc' = AfterCheck(reply, Len(enriched) + 1)
        /\ UNCHANGED <<enrichFrame, users_to_check, printed, report, csv_rows>>

\* positions a user may hold
HeldKinds ==
    {[cashPnl |-> JStr(<<"5", "0", "0">>)], [cashPnl |-> JNum(10000)]}
HeldLists == SeqsUpTo(HeldKinds, MaxHeld)

Enrich200 == \E held \in HeldLists : CheckUser(Reply200(held))
EnrichNon200 == CheckUser(ReplyOther)
EnrichRaises == CheckUser(ReplyRaises)

\* variant: a count of exactly 3 falls in no bucket
ActivityAbove3(counts) ==
    [high_activity |-> Cardinality({w \in DOMAIN counts : counts[w] >= 10}),
     medium_activity |-> Cardinality({w \in DOMAIN counts : 3 < counts[w] /\ counts[w] < 10}),
     low_activity |-> Cardinality({w \in DOMAIN counts : counts[w] < 3})]

\* high_activity, medium_activity and low_activity
Activity(counts) ==
    [high_activity |-> Cardinality({w \in DOMAIN counts : counts[w] >= 10}),
     medium_activity |-> Cardinality({w \in DOMAIN counts : 3 <= counts[w] /\ counts[w] < 10}),
     low_activity |-> Cardinality({w \in DOMAIN counts : counts[w] < 3})]

\* variant: the percentage is computed whatever the number of active users
PercentageDivisorAlways(total_active) == {total_active}

\* `total_profitable/total_active*100 ... if total_active > 0 else ...`
PercentageDivisor(total_active) == IF total_active > 0 THEN {total_active} ELSE {}

\* sorted_profitable[:10]
Ranking ==
    IF profitable_users # <<>>
    THEN SubSeq(ByProfit(profitable_users), 1, Min(TopShown, Len(profitable_users)))
    ELSE <<>>

\* the divisors of the divisions generate_detailed_report evaluates: the
\* percentage, avg_profit, profit/trades of each listed row, avg_trades
ReportDivisors ==
    PercentageDivisor(Cardinality(active_users))
    \cup (IF profitable_users # <<>> THEN {Len(profitable_users)} ELSE {})
    \cup {Ranking[i].trade_count : i \in 1..Len(Ranking)}
    \cup (IF DOMAIN user_trade_counts # {}
          THEN {Cardinality(DOMAIN user_trade_counts)} ELSE {})

\* the report is printed and returned, unless a division raises ZeroDivisionError
generate_detailed_report ==
    /\ pc = "found"
    /\ IF 0 \in ReportDivisors
       THEN pc' = "raised" /\ UNCHANGED <<printed, report>>
       ELSE /\ printed' =
                  [ranking |-> Ranking,
                   activity |-> IF DOMAIN user_trade_counts # {}
                                THEN <<Activity(user_trade_counts)>>
                                ELSE <<>>,
                   divisors |-> ReportDivisors]
            /\ report' = [total_active_users |-> Cardinality(active_users),
                          profitable_users_count |-> Len(profitable_users),
                          profitable_users_details |-> profitable_users]
            /\ pc' = "reported"
    /\ UNCHANGED <<enrichFrame, users_to_check, profitable_users, enriched, csv_rows>>

\* run_full_analysis writes the CSV: one row per user, by profit, ranked from 1
\* (profits are tenths, which the two-decimal format writes exactly)
\* profit_per_trade divides by the row's trade_count
ExportCsv ==
    /\ pc = "reported"
    /\ report.profitable_users_details # <<>>
    /\ LET sorted_users == ByProfit(report.profitable_users_details)
       IN  IF \E i \in 1..Len(sorted_users) : sorted_users[i].trade_count = 0
           THEN pc' = "raised" /\ csv_rows' = csv_rows
           ELSE /\ csv_rows' =
                      [i \in 1..Len(sorted_users) |->
                         [rank |-> i, address |-> sorted_users[i].address,
                          display_name |-> sorted_users[i].display_name,
                          profit |-> sorted_users[i].profit,
                          trade_count |-> sorted_users[i].trade_count]]
                /\ pc' = "exported"
    /\ UNCHANGED <<enrichFrame, users_to_check, profitable_users, enriched, printed,
                   report>>

\* the analyzer after a scan: who traded, how often, sighted in which order
EnrichWallets == {"0xa", "0xb", "0xc"}
TradeCounts == {2, 3, 9, 10}
Thresholds == {0, 5000}
NameOf == [w \in EnrichWallets |->
             IF w = "0xa" THEN "alice" ELSE IF w = "0xb" THEN "bob" ELSE "Anonymous"]
KeyOrders ==
    {s \in SeqsUpTo(EnrichWallets, Cardinality(EnrichWallets)) :
        \A i, j \in 1..Len(s) : i # j => s[i] # s[j]}
Keys == {trade_keys[i] : i \in 1..Len(trade_keys)}

InitEnrich ==
    /\ trade_keys \in KeyOrders
    /\ user_trade_counts \in [Keys -> TradeCounts]
    /\ user_names = [w \in Keys |-> NameOf[w]]
    /\ active_users = Keys
    /\ profit_threshold \in Thresholds
    /\ max_users_to_check \in {NoArg} \cup {IntArg(n) : n \in 0..MaxCheck}
    /\ users_to_check = <<>>
    /\ profitable_users = <<>>
    /\ enriched = <<>>
    /\ printed = NothingPrinted
    /\ report = NoReport
    /\ csv_rows = <<>>
    /\ positions = <<>>
    /\ results = NoResults
    /\ pc = "find"
    /\ stop = ""
    /\ offset = 0
    /\ ScaledConfig
    /\ feed = <<>>
    /\ upstream = ScanUpstream
    /\ DiagIdle
    /\ ScannerCounters

NextEnrich ==
    \/ FindProfitableUsers
    \/ Enrich200
    \/ EnrichNon200
    \/ EnrichRaises
    \/ generate_detailed_report
    \/ ExportCsv

SpecEnrich == InitEnrich /\ [][NextEnrich]_vars

----------------------------------------------------------------------------
(* Properties of make_request_with_backoff *)

Http200 == Http200Page \/ Http200Undecodable \/ Http200Corrupt

\* C5: whatever mix of 200, 429 (with or without Retry-After), other status
\* and transport error the calls have met, the adaptive delay is at least
\* base_delay and at most max_delay.
C5_DelayWithinBounds == base_delay <= current_delay /\ current_delay <= max_delay

\* the delay has climbed to its ceiling through hint-less 429 responses
C5_Witness == current_delay = max_delay /\ throttles >= 1 /\ n429 >= max_retries

\* C6 (as the specification states it): a 429 without a Retry-After hint sets
\* the delay to min(max_delay, delay * backoff_multiplier), and the sleep
\* before the retry lasts that new delay, so it is never longer than max_delay.
C6_SleepIsNewDelay ==
    [][\A h \in RetryAfterHeaders :
          (~HasHint(h) /\ Http429With(h)) =>
             /\ current_delay' = Min(max_delay, current_delay * backoff_multiplier)
             /\ (Len(slept') > Len(slept) =>
                    /\ slept'[Len(slept')] = current_delay'
                    /\ slept'[Len(slept')] <= max_delay)]_vars

\* the call that began at base_delay met three hint-less 429 responses and
\* then a 200
ThreeThrottlesThenOk ==
    /\ pc = "returned"
    /\ ~response.isNone
    /\ delay0 = base_delay
    /\ throttles = 3
    /\ requests = 4

\* C7 (as the specification states it): three hint-less 429 responses and
\* then a 200, starting from base_delay: the caller slept 0.5 s, 1.0 s, 2.0 s.
C7_SleepsHalfOneTwo ==
    ThreeThrottlesThenOk => slept = <<Second \div 2, Second, 2 * Second>>

\* C7 (as the code behaves): in that scenario the caller slept 1.0 s, 2.0 s,
\* 4.0 s, each sleep being the delay already doubled, and the 4th request is
\* the one that succeeded.
C7_SleepsOneTwoFour ==
    ThreeThrottlesThenOk =>
       /\ slept = <<Second, 2 * Second, 4 * Second>>
       /\ requests = 4
       /\ oks = 1

C7_Witness == ThreeThrottlesThenOk /\ Len(slept) = 3

\* C8 (as the specification states it): only a 200 and a hint-less 429 change
\* the delay; a 429 with a Retry-After hint leaves it alone and the caller
\* sleeps for the hint; any other status or a transport error leaves it alone
\* and the caller sleeps for the current delay.
C8_AlwaysSleeps ==
    [][/\ (current_delay' # current_delay =>
             Http200 \/ \E h \in RetryAfterHeaders : ~HasHint(h) /\ Http429With(h))
       /\ \A h \in RetryAfterHeaders :
             (HasHint(h) /\ Http429With(h)) =>
                /\ current_delay' = current_delay
                /\ slept' = Append(slept, h.seconds * Second)
       /\ (HttpOther \/ HttpError) =>
             /\ current_delay' = current_delay
             /\ slept' = Append(slept, current_delay)]_vars

\* C8 (as the code behaves): only a 200 and a hint-less 429 change the delay.
\* A sleep follows a failed attempt only when it was not the last attempt of
\* the call.  A 429 whose Retry-After is a whole number of seconds leaves the
\* delay alone and that sleep lasts the hint; a 429 whose Retry-After is
\* not a whole number, any other status and a transport error leave the delay
\* alone and that sleep lasts the current delay.
C8_DelayFrame ==
    [][/\ (current_delay' # current_delay =>
             Http200 \/ \E h \in RetryAfterHeaders : ~HasHint(h) /\ Http429With(h))
       /\ \A h \in RetryAfterHeaders :
             (HasHint(h) /\ Http429With(h)) =>
                /\ current_delay' = current_delay
                /\ slept' = IF attempt < max_retries - 1
                            THEN Append(slept, IF IntRaises(h.text) THEN current_delay
                                               ELSE IntOf(h.text) * Second)
                            ELSE slept
       /\ (HttpOther \/ HttpError) =>
             /\ current_delay' = current_delay
             /\ slept' = IF attempt < max_retries - 1
                         THEN Append(slept, current_delay)
                         ELSE slept]_vars

\* the only failed attempt of the call was a 429 with Retry-After: 3, and
\* the caller slept 3 s with the delay as it was
C8_Witness ==
    /\ pc = "request"
    /\ requests = 1
    /\ throttles = 0
    /\ slept = <<3 * Second>>
    /\ current_delay = delay0

\* C9: one call issues at most max_retries requests and sleeps at most
\* max_retries - 1 times; the first 200 ends the call with that response;
\* the call returns None exactly when max_retries attempts were made and none
\* of them was a 200.
C9_BoundedRetry ==
    /\ requests <= max_retries
    /\ Len(slept) <= max_retries - 1
    /\ oks <= 1
    /\ (oks = 1 => pc # "request" /\ ~response.isNone)
    /\ (pc = "returned" =>
          (response.isNone <=> requests = max_retries /\ oks = 0))

\* a call has used up its attempts
C9_Witness ==
    /\ pc = "returned"
    /\ response.isNone
    /\ requests = max_retries
    /\ Len(slept) = max_retries - 1

----------------------------------------------------------------------------
(* Properties of scan_all_recent_trades_with_rate_limiting *)

\* the offset of the page that holds the i-th record of the feed
PageOffsetOf(i) == ((i - 1) \div limit) * limit

\* the in-window records of wallet a on the pages handed to the for loop
FedInWindow(a) ==
    {i \in 1..Len(feed) :
        /\ PageOffsetOf(i) \in fed
        /\ InWindow(Get(feed[i], "timestamp", 0))
        /\ Get(feed[i], "proxyWallet", None) = a}

\* C1 (as the specification states it): when the scan has returned, the count
\* of every wallet is the number of in-window records with that wallet on the
\* pages fed to the scanner, each counted once.
C1_CountsMatchFedPages ==
    pc = "done" =>
       \A a \in Wallets : Get(user_trade_counts, a, 0) = Cardinality(FedInWindow(a))

\* C2 (as the specification states it): whatever the upstream answers, the
\* scan eventually leaves its loop and returns.
C2_ScanTerminates == <>(pc = "done")

\* C3 (as the specification states it): the scan stops once failed_calls
\* reaches the budget of 5, so failed_calls is never above 5.
C3_FailuresWithinBudget == failed_calls <= FailureBudget

\* the records of wallet w that the for loop counts on a page
Sightings(trades, w) ==
    {i \in 1..Len(trades) :
        /\ InWindow(Get(trades[i], "timestamp", 0))
        /\ Get(trades[i], "proxyWallet", None) = w}

FirstSighting(trades, w) ==
    CHOOSE i \in Sightings(trades, w) : \A j \in Sightings(trades, w) : i <= j

\* name, else pseudonym, else the literal "Anonymous"
FallbackName(trade) ==
    IF "name" \in DOMAIN trade /\ trade.name \notin {"", None} THEN trade.name
    ELSE IF "pseudonym" \in DOMAIN trade /\ trade.pseudonym \notin {"", None}
    THEN trade.pseudonym
    ELSE "Anonymous"

\* C13: a wallet gets its display name from its first in-window record on
\* the page being processed (name, else pseudonym, else "Anonymous"), and a
\* display name once set is never changed or removed by any later step.
C13_NameWriteOnce ==
    [][\A w \in Wallets :
          /\ (w \in DOMAIN user_names =>
                 w \in DOMAIN user_names' /\ user_names'[w] = user_names[w])
          /\ (w \notin DOMAIN user_names /\ w \in DOMAIN user_names' =>
                 /\ Sightings(response.trades, w) # {}
                 /\ user_names'[w] =
                       FallbackName(response.trades[FirstSighting(response.trades, w)]))]_vars

\* wallet 0xa was first seen with only a pseudonym and seen again under the
\* name "alice"; it is still known by the pseudonym
C13_Witness ==
    /\ pc = "done"
    /\ "0xa" \in DOMAIN user_names
    /\ user_names["0xa"] = "ally"
    /\ user_trade_counts["0xa"] = 2
    /\ Len(feed) = 2
    /\ Get(feed[2], "name", "") = "alice"

\* C14: in the window scenario, as long as no page has failed, the scanner
\* never asks for a third page; when it has returned it has stopped on the
\* old-trades threshold after the second page, having counted exactly the
\* three records above the cutoff as recent (two of wallet 0xa, one of 0xb)
\* and the records of the second page as old.
C14_WindowScenario ==
    failed_calls = 0 =>
       /\ offset <= limit
       /\ (pc = "done" =>
              /\ stop = "window_exhausted"
              /\ fed = {0, limit}
              /\ recent_trades_found = 3
              /\ user_trade_counts = ("0xa" :> 2) @@ ("0xb" :> 1)
              /\ total_trades_processed = 3 + Len(PageAt(feed, limit))
              /\ consecutive_old_trades = Len(PageAt(feed, limit)))

\* the scenario has run to its end on a feed that has a third page
C14_Witness ==
    /\ pc = "done"
    /\ failed_calls = 0
    /\ limit = 3
    /\ old_trades_stop = 2
    /\ Len(feed) > 2 * limit
    /\ recent_trades_found = 3

\* C15: when a call returns a decoded body with no records, the next step
\* ends the scan with the actor set, the trade counts and the names as they
\* were, and a scan that has ended takes no further step, so no further page
\* is requested.
C15_EmptyPageEnds ==
    [][/\ pc # "done"
       /\ (pc = "returned" /\ ~response.isNone /\ response.json_ok
              /\ response.trades = <<>>) =>
             /\ pc' = "done"
             /\ stop' = "empty_page"
             /\ UNCHANGED <<active_users, user_trade_counts, user_names, offset>>]_vars

\* a scan that had found users has ended on an empty page
C15_Witness ==
    /\ pc = "done"
    /\ stop = "empty_page"
    /\ active_users # {}
    /\ response.trades = <<>>

\* C11 (as the specification states it): whenever the scan loop goes from one
\* make_request_with_backoff call to the next, the pass it has just ended
\* slept the inter-request delay once, whether the page was processed, had
\* failed, or had a body that could not be processed.
C11_PauseBetweenCalls ==
    [][(pc = "returned" /\ pc' = "request") => pause' = current_delay]_vars

\* C10 (as the specification states it): when the scan has finished,
\* rate_limit_hits is the number of 429 responses the upstream returned.
C10_HitsCountThrottles == pc = "done" => rate_limit_hits = n429

----------------------------------------------------------------------------
(* Properties of scan_with_detailed_logging *)

\* the dict returned at the end of scan_with_detailed_logging
DiagResult ==
    [total_fetched |-> total_trades_fetched,
     recent_trades |-> recent_trades_count,
     active_users |-> Cardinality(active_users),
     stop_reason |-> "diagnostic_complete"]

\* C12 (as the specification states it): the returned value tells the terminal
\* conditions apart: a scan that ended for another reason than the cap on
\* scanned records does not return the stop reason that a scan ended by the
\* cap returns.
C12_StopReasonTellsApart ==
    (pc = "returned" /\ stop # "max_records") =>
       DiagResult.stop_reason # "diagnostic_complete"

----------------------------------------------------------------------------
(* Properties of the capped scans *)

C4_NeverRaises == pc # "raised"

----------------------------------------------------------------------------
(* Properties of calculate_user_profit *)

\* C17: folding an empty position list gives total_positions = 0 and 0 in
\* every other field of the summary.
C17_EmptyListAllZero ==
    (pc = "result" /\ positions = <<>>) =>
       /\ results.total_positions = 0
       /\ results.profitable_positions = 0
       /\ results.losing_positions = 0
       /\ results.total_cash_pnl = F(0)
       /\ results.total_percent_pnl = F(0)
       /\ results.biggest_win = F(0)
       /\ results.biggest_loss = F(0)
       /\ results.total_initial_value = F(0)
       /\ results.total_current_value = F(0)

C17_Witness == pc = "result" /\ positions = <<>> /\ results.total_positions = 0

\* the value of one field on its own: 0 when it is null, empty, non-numeric
\* or absent, and its number otherwise
FieldValue(position, field) ==
    LET raw == Get(position, field, JNum(0))
    IN  IF ConvertRaises(raw) THEN F(0) ELSE Converted(raw)

Indices == 1..Len(positions)
CashPnl(i) == FieldValue(positions[i], "cashPnl")

\* C18 (as the specification states it): profitable_positions +
\* losing_positions is at most total_positions, and equals it exactly when no
\* position has a cashPnl that parses to zero.
C18_CountsPartition ==
    pc = "result" =>
       /\ results.profitable_positions + results.losing_positions
             <= results.total_positions
       /\ (results.profitable_positions + results.losing_positions
             = results.total_positions)
          <=> (\A i \in Indices : CashPnl(i) # F(0))

SetMax(S) == CHOOSE x \in S : \A y \in S : y <= x
SetMin(S) == CHOOSE x \in S : \A y \in S : x <= y

\* C19 (as the specification states it): biggest_loss <= 0 <= biggest_win,
\* biggest_win is the largest positive cashPnl of the list and biggest_loss
\* the smallest negative one, each 0 when there is none.
C19_BiggestWinAndLoss ==
    pc = "result" =>
       /\ ~results.biggest_win.nan /\ ~results.biggest_loss.nan
       /\ results.biggest_loss.v <= 0
       /\ 0 <= results.biggest_win.v
       /\ results.biggest_win.v =
             SetMax({0} \cup {CashPnl(i).v : i \in {j \in Indices : FGt(CashPnl(j), F(0))}})
       /\ results.biggest_loss.v =
             SetMin({0} \cup {CashPnl(i).v : i \in {j \in Indices : FLt(CashPnl(j), F(0))}})

\* the list [{cashPnl: "250.5"}, {cashPnl: null}, {cashPnl: -100}]
FoldScenario ==
    <<[cashPnl |-> JStr(<<"2", "5", "0", ".", "5">>)], [cashPnl |-> JNull],
      [cashPnl |-> JNum(0 - 1000)]>>

\* C20: on that list the summary has total_cash_pnl 150.5, one profitable and
\* one losing position, biggest_win 250.5, biggest_loss -100 and
\* total_positions 3.
C20_FoldScenario ==
    (pc = "result" /\ positions = FoldScenario) =>
       /\ results.total_cash_pnl = F(1505)
       /\ results.profitable_positions = 1
       /\ results.losing_positions = 1
       /\ results.biggest_win = F(2505)
       /\ results.biggest_loss = F(0 - 1000)
       /\ results.total_positions = 3

C20_Witness ==
    pc = "result" /\ positions = FoldScenario /\ results.total_positions = 3

\* the sum over the first n positions of one field, each taken on its own
RECURSIVE FieldSum(_, _)
FieldSum(field, n) ==
    IF n = 0 THEN F(0)
    ELSE FAdd(FieldSum(field, n - 1), FieldValue(positions[n], field))

\* C21 (as the specification states it): each of cashPnl, percentPnl,
\* initialValue and currentValue is coerced on its own, so every total is the
\* sum of that field's own values and a non-numeric value in one field never
\* changes what another field of the same position contributes.
C21_PerFieldCoercion ==
    pc = "result" =>
       /\ results.total_cash_pnl = FieldSum("cashPnl", Len(positions))
       /\ results.total_percent_pnl = FieldSum("percentPnl", Len(positions))
       /\ results.total_initial_value = FieldSum("initialValue", Len(positions))
       /\ results.total_current_value = FieldSum("currentValue", Len(positions))

----------------------------------------------------------------------------
(* Properties of find_profitable_users and generate_detailed_report *)

\* find_profitable_users has returned
Found == pc \in {"found", "reported", "exported"}

\* C22: a failed positions request (another status, an exception) gives that
\* user profit 0 and nothing else: the users selected are attempted one by
\* one in their order, each exactly once, those before and those after a
\* failure alike, and the loop only ends when all have been attempted.
C22_FailureIsolated ==
    /\ Len(enriched) <= Len(users_to_check)
    /\ \A k \in 1..Len(enriched) :
          /\ enriched[k].address = users_to_check[k][1]
          /\ enriched[k].failed => enriched[k].profit = F(0)
    /\ \A k, m \in 1..Len(enriched) :
          k # m => enriched[k].address # enriched[m].address
    /\ Found => Len(enriched) = Len(users_to_check)
    /\ pc = "enrich" => Len(enriched) < Len(users_to_check)

\* three users, the second request failed, the other two brought a profit
C22_Witness ==
    /\ pc = "found"
    /\ Len(enriched) = 3
    /\ enriched[2].failed
    /\ ~enriched[1].failed /\ enriched[1].profit # F(0)
    /\ ~enriched[3].failed /\ enriched[3].profit # F(0)

Details == report.profitable_users_details

\* C23 (as the specification states it): with threshold 0, a user whose
\* enrichment failed is in the report with profit 0 and a mark that the
\* enrichment failed.
C23_FailedUserReported ==
    (pc = "reported" /\ profit_threshold = 0) =>
       \A k \in 1..Len(enriched) :
          enriched[k].failed =>
             \E r \in 1..Len(Details) :
                /\ Details[r].address = enriched[k].address
                /\ Details[r].profit = F(0)
                /\ Get(Details[r], "enrichment_failed", FALSE)

\* C24 (as the specification states it): a user counts as failed only after
\* max_retries requests for the positions.
C24_FailedAfterRetries ==
    \A k \in 1..Len(enriched) :
       enriched[k].failed => enriched[k].requests = max_retries

\* C25 (as the specification states it): the profit of a user is the sum over
\* every position the user holds, beyond the first page as well.
C25_AllPagesFolded ==
    [][\A held \in HeldLists :
          CheckUser(Reply200(held)) =>
             enriched'[Len(enriched')].profit = TotalProfit(F(0), held)]_vars

\* the calls whose profit is strictly above the threshold
Qualifying ==
    {k \in 1..Len(enriched) : FGt(enriched[k].profit, F(profit_threshold))}
RowsOf(address) ==
    {r \in 1..Len(profitable_users) : profitable_users[r].address = address}

\* C26: once find_profitable_users has returned, profitable_users holds
\* exactly the checked users whose profit is strictly greater than the
\* threshold, each once and with that profit; a user whose profit equals the
\* threshold has no row.
C26_ThresholdFilter ==
    Found =>
       /\ Len(profitable_users) = Cardinality(Qualifying)
       /\ \A k \in 1..Len(enriched) :
             IF k \in Qualifying
             THEN /\ Cardinality(RowsOf(enriched[k].address)) = 1
                  /\ \A r \in RowsOf(enriched[k].address) :
                        /\ profitable_users[r].profit = enriched[k].profit
                        /\ profitable_users[r].trade_count
                              = user_trade_counts[enriched[k].address]
             ELSE RowsOf(enriched[k].address) = {}
       /\ \A k \in 1..Len(enriched) :
             enriched[k].profit = F(profit_threshold) =>
                RowsOf(enriched[k].address) = {}

\* three users checked against a threshold of 500: one above it, one exactly
\* at it, one below it
C26_Witness ==
    /\ pc = "found"
    /\ profit_threshold = 5000
    /\ Len(enriched) = 3
    /\ \E k \in 1..3 : ~enriched[k].failed /\ enriched[k].profit = F(5000)
    /\ \E k \in 1..3 : enriched[k].profit = F(10000)
    /\ \E k \in 1..3 : ~enriched[k].failed /\ enriched[k].profit = F(0)
    /\ Len(profitable_users) = 1

\* rows in non-increasing order of profit, the higher trade_count first
\* among equal profits
Ranked(rows) ==
    \A i, j \in 1..Len(rows) :
       i < j =>
          /\ ~FGt(rows[j].profit, rows[i].profit)
          /\ rows[i].profit = rows[j].profit
                => rows[i].trade_count >= rows[j].trade_count

\* C27: the top-10 listing of generate_detailed_report and the CSV rows of
\* run_full_analysis each hold the profitable users in non-increasing order
\* of profit, and among rows of equal profit the higher trade_count first.
C27_RankingOrder ==
    /\ pc \in {"reported", "exported"} =>
          /\ Len(printed.ranking) = Min(TopShown, Len(profitable_users))
          /\ Ranked(printed.ranking)
    /\ pc = "exported" =>
          /\ Len(csv_rows) = Len(profitable_users)
          /\ \A i \in 1..Len(csv_rows) : csv_rows[i].rank = i
          /\ Ranked(csv_rows)

\* three rows written: the most active user has the lowest profit, the other
\* two tie on profit and differ in trade_count
C27_Witness ==
    /\ pc = "exported"
    /\ Len(csv_rows) = 3
    /\ csv_rows[1].profit = csv_rows[2].profit
    /\ csv_rows[1].trade_count > csv_rows[2].trade_count
    /\ FGt(csv_rows[2].profit, csv_rows[3].profit)
    /\ csv_rows[3].trade_count > csv_rows[1].trade_count
    /\ printed.ranking[3].address = csv_rows[3].address

\* the order of the actor identifiers
IdRank(address) == CHOOSE i \in 1..3 : <<"0xa", "0xb", "0xc">>[i] = address

\* C28 (as the specification states it): rows of equal profit and equal
\* trade_count are ordered by actor identifier, whatever the order in which
\* the actors were first sighted.
C28_TieByIdentifier ==
    pc = "exported" =>
       \A i, j \in 1..Len(csv_rows) :
          (/\ i < j
           /\ csv_rows[i].profit = csv_rows[j].profit
           /\ csv_rows[i].trade_count = csv_rows[j].trade_count)
             => IdRank(csv_rows[i].address) < IdRank(csv_rows[j].address)

\* C29 (as the specification states it): in the returned
\* profitable_users_details each entry's profit is at least the profit of the
\* entry after it.
C29_DetailsSorted ==
    pc \in {"reported", "exported"} =>
       \A i \in 1..Len(Details) - 1 :
          ~FLt(Details[i].profit, Details[i + 1].profit)

High == {w \in Keys : user_trade_counts[w] >= 10}
Medium == {w \in Keys : user_trade_counts[w] \in 3..9}
Low == {w \in Keys : user_trade_counts[w] <= 2}

\* C30: the buckets the report prints count every user of user_trade_counts,
\* checked for profit or not, each in exactly one of high (10 or more
\* trades), medium (3 to 9) and low (fewer than 3), so the three add up to
\* the number of users.
C30_BucketsPartition ==
    (pc \in {"reported", "exported"} /\ trade_keys # <<>>) =>
       /\ Len(printed.activity) = 1
       /\ printed.activity[1].high_activity = Cardinality(High)
       /\ printed.activity[1].medium_activity = Cardinality(Medium)
       /\ printed.activity[1].low_activity = Cardinality(Low)
       /\ printed.activity[1].high_activity + printed.activity[1].medium_activity
             + printed.activity[1].low_activity = Len(trade_keys)

\* users with 3, 9 and 10 trades, only one of them checked for profit
C30_Witness ==
    /\ pc = "reported"
    /\ {user_trade_counts[w] : w \in Keys} = {3, 9, 10}
    /\ Len(users_to_check) = 1
    /\ printed.activity = <<[high_activity |-> 1, medium_activity |-> 2,
                             low_activity |-> 0]>>

\* C31: no division of the report or of the CSV export has a zero divisor:
\* with no active user the percentage is not computed, and every division
\* that is made (by the number of active users, of profitable users, of
\* users, by a row's trade count) has a divisor of at least 1.
C31_NoDivisionByZero ==
    /\ pc # "raised"
    /\ pc \in {"reported", "exported"} => \A d \in printed.divisors : d >= 1
    /\ pc = "exported" => \A i \in 1..Len(csv_rows) : csv_rows[i].trade_count >= 1

\* a report built with no active user at all
C31_Witness ==
    /\ pc = "reported"
    /\ report.total_active_users = 0
    /\ printed.divisors = {}

----------------------------------------------------------------------------
(* Further properties of the scans *)

\* one pass of `while True` after make_request_with_backoff has returned
ScanStep == ScanFailedPage \/ ScanDecodeError \/ ScanEmptyPage \/ ScanProcessPage

\* C32 (as the specification states it): each page fetch after the first
\* asks for the offset one page beyond the previous one, so the offsets
\* strictly increase and none is fetched twice; and the offset left behind
\* went through the for loop unless its fetch had failed.
C32_PageOrder ==
    [][(ScanStep /\ pc' = "request") =>
          /\ offset' = offset + limit
          /\ offset \notin fed' => response.isNone]_vars

\* the page in hand, whether every element of it is a record, and which of
\* its records are in the window
Page == response.trades
WellFormed == \A i \in 1..Len(Page) : IsDict(Page[i])
Recent(i) == InWindow(Get(Page[i], "timestamp", 0))

\* C33 (as the specification states it): after a page has been processed,
\* consecutive_old_trades is 0 if the page held any in-window record and
\* otherwise its old value plus the number of records of the page, all of
\* them out of the window; the scan ends after the first page that leaves
\* the counter at or above the threshold.
C33_ConsecutiveOld ==
    [][(ScanProcessPage /\ WellFormed) =>
          /\ consecutive_old_trades' =
                IF \E i \in 1..Len(Page) : Recent(i) THEN 0
                ELSE consecutive_old_trades + Len(Page)
          /\ pc' = "done" <=> consecutive_old_trades' >= old_trades_stop]_vars

\* the three structures name the same actors, each with a count of at least 1
InStep ==
    /\ active_users = DOMAIN user_trade_counts
    /\ DOMAIN user_names = DOMAIN user_trade_counts
    /\ \A w \in DOMAIN user_trade_counts : user_trade_counts[w] >= 1

\* C34: throughout a scan active_users, the keys of user_trade_counts and
\* the keys of user_names are one and the same set, every stored count is at
\* least 1, and no step removes an actor or lowers a count.
C34_StructuresInStep ==
    [][/\ InStep /\ InStep'
       /\ \A w \in DOMAIN user_trade_counts :
             /\ w \in DOMAIN user_trade_counts'
             /\ user_trade_counts'[w] >= user_trade_counts[w]]_vars

\* both wallets sighted, one of them twice
C34_Witness ==
    /\ pc = "done"
    /\ active_users = {"0xa", "0xb"}
    /\ DOMAIN user_names = {"0xa", "0xb"}
    /\ user_trade_counts = ("0xa" :> 2) @@ ("0xb" :> 1)

\* the in-window records of an actor in the feed
RecordsOf(w) ==
    {i \in 1..Len(feed) : /\ InWindow(Get(feed[i], "timestamp", 0))
                          /\ Get(feed[i], "proxyWallet", None) = w}

\* C35 (as the specification states it): when the scan has returned, no
\* actor's count exceeds the number of in-window records the actor has in
\* the feed, whatever pages failed partway.
C35_NoDoubleCount ==
    pc = "done" =>
       \A w \in DOMAIN user_trade_counts :
          user_trade_counts[w] <= Cardinality(RecordsOf(w))

\* the position in the feed of the first record older than the cutoff
\* (one past the end when there is none)
OldAt == {i \in 1..Len(feed) : Get(feed[i], "timestamp", 0) < six_months_ago}
FirstOld == IF OldAt = {} THEN Len(feed) + 1 ELSE CHOOSE i \in OldAt : \A j \in OldAt : i <= j

\* how often an actor appears among the first n records of the feed
PrefixCount(w, n) ==
    Cardinality({i \in 1..n : Get(feed[i], "proxyWallet", None) = w})
StoredCount(w) ==
    IF w \in DOMAIN user_trade_counts THEN user_trade_counts[w] ELSE 0

\* C36: scan_for_active_users counts the records of the feed in order and
\* never reaches the first record older than the cutoff: what is counted is
\* always a run of records from the head of the feed that ends before that
\* record, a later in-window record is never counted, and when the scan
\* stops on that record it has counted every record before it and has asked
\* for no page beyond the one that holds it.
C36_StopsAtFirstOld ==
    /\ trades_scanned < FirstOld
    /\ \A w \in Wallets : StoredCount(w) = PrefixCount(w, trades_scanned)
    /\ active_users = {w \in Wallets : PrefixCount(w, trades_scanned) > 0}
    /\ FirstOld <= Len(feed) => offset < FirstOld
    /\ stop = "window_exhausted" =>
          /\ pc = "returned"
          /\ trades_scanned = FirstOld - 1
          /\ FirstOld <= offset + limit

\* the scan stopped on an old record that an in-window record of a counted
\* actor follows in the feed
C36_Witness ==
    /\ pc = "returned"
    /\ stop = "window_exhausted"
    /\ trades_scanned >= 1
    /\ \E i \in FirstOld + 1..Len(feed) :
          /\ Get(feed[i], "timestamp", 0) >= six_months_ago
          /\ Get(feed[i], "proxyWallet", None) \in active_users
          /\ StoredCount(feed[i].proxyWallet) < PrefixCount(feed[i].proxyWallet, Len(feed))

\* the number of position requests the specification allows for N
Allowed(arg) ==
    IF arg.isNone THEN Len(trade_keys) ELSE Min(arg.v, Len(trade_keys))

\* C37 (as the specification states it): find_profitable_users(threshold, N)
\* makes exactly min(N, number of actors) position requests, for the actors
\* with the highest trade counts in descending order of count, for every
\* N >= 0, N = 0 included; with N = None every actor is enriched once.
C37_TopNTruncation ==
    Found =>
       /\ Len(enriched) = Allowed(max_users_to_check)
       /\ \A k \in 1..Len(enriched) :
             /\ enriched[k].requests = 1
             /\ enriched[k].address = ByTradeCount(Items)[k][1]
       /\ \A k \in 1..Len(enriched) - 1 :
             user_trade_counts[enriched[k].address]
                >= user_trade_counts[enriched[k + 1].address]

\* C38 (as the specification states it): for every list of positions the
\* sum analyze_user_profit makes of cashPnl equals the total_cash_pnl of
\* calculate_user_profit, lists with a non-numeric percentPnl, initialValue
\* or currentValue included.
C38_CalculatorsAgree ==
    pc = "result" => TotalProfit(F(0), positions) = results.total_cash_pnl

====
